---------------------------- MODULE Spec2Model ----------------------------
(***************************************************************************)
(* The NGO site-selection tool: the tabular workflow (NGOexcelspider.py:   *)
(* upload a CSV, normalise it, draw the radar chart, score every theme)    *)
(* and the slider workflow (NGOsliderspider.py: nine sliders against a     *)
(* fixed capability vector, radar chart, overall fit).                     *)
(*                                                                         *)
(* Text is a sequence of one-character strings, so that lower(), split()   *)
(* and the substring test `in` are computed character by character.        *)
(* Numbers of the CSV are integers; the slider fit, which multiplies by    *)
(* 0.1, is kept in tenths.                                                 *)
(***************************************************************************)
EXTENDS Integers, Sequences, FiniteSets, TLC

VARIABLES
    uploaded_file,          \* the CSV handed to main(): a sequence of lines, each a sequence of cells
    themes,                 \* main()'s themes (None before a successful load)
    community_capacities,   \* main()'s community_capacities
    ngo_capabilities,       \* main()'s ngo_capabilities
    st_error,               \* the st.error messages of load_data_from_csv, in order
    fig,                    \* the figure handed to st.pyplot (None before)
    assessment,             \* the theme-by-theme rows written by the scoring loop
    pc,                     \* position of the tabular script
    slider_values,          \* the slider script's community_capacities: the nine st.slider values
    slider_ngo,             \* the slider script's ngo_capabilities list
    slider_fig,             \* the slider workflow's figure
    fit_scores,             \* the slider workflow's fit_scores list, in tenths
    fit_message,            \* the st.success / st.warning / st.error shown for the overall fit
    slider_pc               \* position of the slider script

vars == <<uploaded_file, themes, community_capacities, ngo_capabilities, st_error,
          fig, assessment, pc, slider_values, slider_ngo, slider_fig, fit_scores,
          fit_message, slider_pc>>

tabularVars == <<uploaded_file, themes, community_capacities, ngo_capabilities,
                 st_error, fig, assessment, pc>>

sliderVars == <<slider_values, slider_ngo, slider_fig, fit_scores, fit_message,
                slider_pc>>

-----------------------------------------------------------------------------
(* Bounds of the model.                                                    *)

\* most data lines an uploaded file holds (below its first line)
MaxRows == 10

\* most columns an uploaded file holds
MaxCols == 3

\* most categories the chart routine is tried on, on its own
MaxN == 3

-----------------------------------------------------------------------------
(* Program constants.                                                      *)

\* rows of data the loader requires
NumThemes == 9

\* columns the loader requires
RequiredCols == 3

\* the rim of the chart, the upper end of the valid range and of the sliders
max_value == 10

\* Python's None, as the value of a list-typed variable
None == <<"None">>

-----------------------------------------------------------------------------
(* Text.                                                                   *)

UpperToLower ==
    ("A" :> "a") @@ ("B" :> "b") @@ ("C" :> "c") @@ ("D" :> "d") @@ ("E" :> "e") @@
    ("F" :> "f") @@ ("G" :> "g") @@ ("H" :> "h") @@ ("I" :> "i") @@ ("J" :> "j") @@
    ("K" :> "k") @@ ("L" :> "l") @@ ("M" :> "m") @@ ("N" :> "n") @@ ("O" :> "o") @@
    ("P" :> "p") @@ ("Q" :> "q") @@ ("R" :> "r") @@ ("S" :> "s") @@ ("T" :> "t") @@
    ("U" :> "u") @@ ("V" :> "v") @@ ("W" :> "w") @@ ("X" :> "x") @@ ("Y" :> "y") @@
    ("Z" :> "z")

\* str.lower()
lower(s) ==
    [i \in 1..Len(s) |-> IF s[i] \in DOMAIN UpperToLower THEN UpperToLower[s[i]] ELSE s[i]]

\* `needle in haystack` on two strings
IsSubstring(needle, haystack) ==
    \E i \in 0..(Len(haystack) - Len(needle)) :
        \A j \in 1..Len(needle) : haystack[i + j] = needle[j]

\* str.split(): the maximal runs of non-blank characters, as the set of words
\* (the lookup only asks whether any word matches)
split(s) ==
    { SubSeq(s, a, b) : <<a, b>> \in
        { <<a, b>> \in (1..Len(s)) \X (1..Len(s)) :
            /\ a <= b
            /\ \A k \in a..b : s[k] # " "
            /\ (a = 1 \/ s[a - 1] = " ")
            /\ (b = Len(s) \/ s[b + 1] = " ") } }

DigitValue ==
    ("0" :> 0) @@ ("1" :> 1) @@ ("2" :> 2) @@ ("3" :> 3) @@ ("4" :> 4) @@
    ("5" :> 5) @@ ("6" :> 6) @@ ("7" :> 7) @@ ("8" :> 8) @@ ("9" :> 9)

\* whether float(x) / pd.to_numeric(x) accepts the cell: here, a decimal
\* integer with an optional minus sign (the cells of the model are integers
\* and words)
IsNumeric(cell) ==
    LET digits == IF Len(cell) > 0 /\ cell[1] = "-" THEN Tail(cell) ELSE cell
    IN  /\ Len(digits) > 0
        /\ \A i \in 1..Len(digits) : digits[i] \in DOMAIN DigitValue

RECURSIVE DecimalValue(_)
DecimalValue(digits) ==
    IF Len(digits) = 0 THEN 0
    ELSE 10 * DecimalValue(SubSeq(digits, 1, Len(digits) - 1)) + DigitValue[digits[Len(digits)]]

\* float(x) of a cell float() accepts
float(cell) ==
    IF cell[1] = "-" THEN 0 - DecimalValue(Tail(cell)) ELSE DecimalValue(cell)

-----------------------------------------------------------------------------
(* load_data_from_csv.                                                     *)

\* pd.read_csv(uploaded_file) with its defaults: a file without any line
\* raises (EmptyDataError); otherwise the first line names the columns and
\* the lines below it are the rows of the frame
read_csv(file) ==
    IF Len(file) = 0
    THEN [raised |-> TRUE, columns |-> << >>, rows |-> << >>]
    ELSE [raised |-> FALSE, columns |-> file[1], rows |-> Tail(file)]

\* st.error(...) followed by a return of three empty lists
Failure_empty_lists(kind, n) ==
    [themes |-> << >>, community_capacities |-> << >>, ngo_capabilities |-> << >>,
     errors |-> << [kind |-> kind, n |-> n] >>]

\* st.error(...) followed by `return None, None, None`
Failure(kind, n) ==
    [themes |-> None, community_capacities |-> None, ngo_capabilities |-> None,
     errors |-> << [kind |-> kind, n |-> n] >>]

\* the header test: 1 when pd.to_numeric rejects column 2 or 3 of row 0
header_rows(rows) ==
    IF IsNumeric(rows[1][2]) /\ IsNumeric(rows[1][3]) THEN 0 ELSE 1

\* df.iloc[start_row:end_row, col].tolist() (col counted from 0; a slice stops
\* at the end of the frame)
iloc_column(rows, start_row, end_row, col) ==
    LET stop == IF end_row < Len(rows) THEN end_row ELSE Len(rows)
    IN  [k \in 1..(stop - start_row) |-> rows[start_row + k][col + 1]]

\* the range test with its upper end one too far
in_range_lax(v) == 0 <= v /\ v <= max_value + 1

\* 0 <= v <= 10
in_range(v) == 0 <= v /\ v <= max_value

\* the range loop: the indices i (from 0) whose pair fails the range test
out_of_range_rows(comm, ngo) ==
    { i \in 0..(Len(comm) - 1) : ~in_range(comm[i + 1]) \/ ~in_range(ngo[i + 1]) }

\* the row number the range message names
reported_row(i, start_row) == i + start_row + 1

\* the rows the required-rows message names
required_rows(start_row) == NumThemes + start_row

Min(S) == CHOOSE x \in S : \A y \in S : x <= y

load_data_from_csv(file) ==
    LET df == read_csv(file)
    IN
    IF df.raised THEN Failure("ReadError", 0)
    ELSE IF Len(df.columns) < RequiredCols THEN Failure("SchemaError", 0)
    \* df.iloc[0, 1] on a frame without rows raises IndexError, which the inner
    \* `except (ValueError, TypeError)` lets through to `except Exception`
    ELSE IF Len(df.rows) = 0 THEN Failure("ReadError", 0)
    ELSE
    LET start_row == header_rows(df.rows)
        end_row == start_row + NumThemes
    IN
    IF Len(df.rows) < end_row THEN Failure("RowCountError", required_rows(start_row))
    ELSE
    LET t == iloc_column(df.rows, start_row, end_row, 0)
        c == iloc_column(df.rows, start_row, end_row, 1)
        n == iloc_column(df.rows, start_row, end_row, 2)
    IN
    IF Len(t) # NumThemes \/ Len(c) # NumThemes \/ Len(n) # NumThemes
    THEN Failure("LengthError", 0)
    ELSE IF \E k \in 1..NumThemes : ~IsNumeric(c[k]) \/ ~IsNumeric(n[k])
    THEN Failure("TypeError", 0)
    ELSE
    LET comm == [k \in 1..NumThemes |-> float(c[k])]
        ngo == [k \in 1..NumThemes |-> float(n[k])]
        bad == out_of_range_rows(comm, ngo)
    IN
    IF bad # {} THEN Failure("RangeError", reported_row(Min(bad), start_row))
    ELSE [themes |-> t, community_capacities |-> comm, ngo_capabilities |-> ngo,
          errors |-> << >>]

-----------------------------------------------------------------------------
(* create_radar_chart.  An angle n / float(N) * 2 * pi is kept as the      *)
(* fraction num/den of a full turn.                                        *)

\* list[:1]
first_slice(list) == IF Len(list) = 0 THEN << >> ELSE << list[1] >>

\* list[:-1]
but_last(list) == IF Len(list) = 0 THEN << >> ELSE SubSeq(list, 1, Len(list) - 1)

\* the inner boundary drawn at the capacity itself
community_fill_values_direct(closed_comm) ==
    [k \in 1..Len(closed_comm) |-> closed_comm[k]]

\* [max_value - val for val in community_capacities]
community_fill_values(closed_comm) ==
    [k \in 1..Len(closed_comm) |-> max_value - closed_comm[k]]

\* the geometry both scripts share; the result also names the two argument
\* lists as the routine leaves them (`+=` extends them in place)
radar_geometry(ngo_arg, comm_arg, categories, yticks) ==
    LET N == Len(categories)
        base == [n \in 1..N |-> [num |-> n - 1, den |-> N]]
        angles == base \o first_slice(base)
        closed_ngo == ngo_arg \o first_slice(ngo_arg)
        closed_comm == comm_arg \o first_slice(comm_arg)
    IN  [fig |-> [angles |-> angles,
                  ngo_line |-> closed_ngo,
                  community_outer |-> [k \in 1..Len(closed_comm) |-> max_value],
                  community_line |-> community_fill_values(closed_comm),
                  xticks |-> but_last(angles),
                  xticklabels |-> categories,
                  ylim |-> <<0, max_value>>,
                  yticks |-> yticks],
         ngo_capabilities |-> closed_ngo,
         community_capacities |-> closed_comm]

\* NGOexcelspider.create_radar_chart: yticks range(0, 11)
create_radar_chart(ngo_arg, comm_arg, categories) ==
    radar_geometry(ngo_arg, comm_arg, categories, [k \in 1..11 |-> k - 1])

\* NGOsliderspider.create_radar_chart: yticks range(0, 11, 2)
slider_create_radar_chart(ngo_arg, comm_arg, categories) ==
    radar_geometry(ngo_arg, comm_arg, categories, [k \in 1..6 |-> 2 * (k - 1)])

-----------------------------------------------------------------------------
(* The theme-by-theme assessment of the tabular workflow.                  *)

\* the catalogue, in the order the dict literal gives its items()
strategic_recommendations ==
<<
    [key |-> <<"1", ".", "1", " ", "A", "w", "a", "r", "e", "n", "e", "s", "s", " ", "&", " ", "E", "d", "u", "c", "a", "t", "i", "o", "n">>,
     value |-> "improving communication on the effects of conservation, or reaching out to younger generations"],
    [key |-> <<"1", ".", "2", " ", "C", "o", "m", "m", "u", "n", "i", "t", "y", " ", "G", "o", "v", "e", "r", "n", "a", "n", "c", "e">>,
     value |-> "strengthening ties with community members to gain trust"],
    [key |-> <<"1", ".", "3", " ", "T", "r", "a", "d", "i", "t", "i", "o", "n", " ", "P", "r", "e", "s", "e", "r", "v", "a", "t", "i", "o", "n">>,
     value |-> "collaborating with the community to include traditional elements in ecotourism"],
    [key |-> <<"2", ".", "1", " ", "I", "n", "c", "o", "m", "e", " ", "&", " ", "R", "e", "v", "e", "n", "u", "e">>,
     value |-> "adapting business model to increase the portion of the revenue reserved for tour guide salaries and conservation"],
    [key |-> <<"2", ".", "2", " ", "E", "m", "p", "l", "o", "y", "m", "e", "n", "t">>,
     value |-> "offer employment to more local residents with opportunities to develop skills and expertise"],
    [key |-> <<"2", ".", "3", " ", "A", "m", "e", "n", "i", "t", "i", "e", "s">>,
     value |-> "improve infrastructure for the daily lives of residents and adapt it to accommodate tourists"],
    [key |-> <<"3", ".", "1", " ", "H", "a", "b", "i", "t", "a", "t", " ", "C", "o", "n", "s", "e", "r", "v", "a", "t", "i", "o", "n">>,
     value |-> "creating habitat improvements for the natural resource"],
    [key |-> <<"3", ".", "2", " ", "S", "h", "a", "r", "k", " ", "P", "r", "e", "s", "e", "r", "v", "a", "t", "i", "o", "n">>,
     value |-> "strengthening fishing conservation efforts"],
    [key |-> <<"3", ".", "3", " ", "P", "r", "o", "t", "e", "c", "t", "e", "d", " ", "A", "r", "e", "a">>,
     value |-> "strengthening and implementing area protection regulations"] >>

general_adjustments == "general strategic adjustments"

\* the test of the lookup loop for one catalogue key
key_matches(key, theme) ==
    \/ IsSubstring(lower(key), lower(theme))
    \/ \E word \in split(lower(key)) : IsSubstring(word, lower(theme))

\* the lookup loop: the value of the first key that matches, else the fallback
recommendation_for(theme) ==
    LET hits == { k \in 1..Len(strategic_recommendations) :
                    key_matches(strategic_recommendations[k].key, theme) }
    IN  IF hits = {} THEN general_adjustments
        ELSE strategic_recommendations[Min(hits)].value

\* score = -10 + ngo_cap + comm_cap
theme_score(ngo_cap, comm_cap) == (0 - 10) + ngo_cap + comm_cap

\* the colour of the score column
score_colour(score) ==
    IF score = 0 THEN "green"
    ELSE IF score > 0 THEN "orange"
    ELSE IF score < 0 - 2 THEN "red"
    ELSE "blue"

\* comment_kind with the gap threshold taken inclusively
comment_kind_inclusive(score) ==
    IF score = 0 THEN "success"
    ELSE IF score > 0 THEN "warning"
    ELSE IF score <= 0 - 2 THEN "error"
    ELSE "info"

\* the st.success / st.warning / st.error / st.info of the comment column
comment_kind(score) ==
    IF score = 0 THEN "success"
    ELSE IF score > 0 THEN "warning"
    ELSE IF score < 0 - 2 THEN "error"
    ELSE "info"

\* one pass of the loop over themes
theme_row(theme, ngo_cap, comm_cap) ==
    LET score == theme_score(ngo_cap, comm_cap)
    IN  [theme |-> theme,
         ngo_cap |-> ngo_cap,
         comm_cap |-> comm_cap,
         score |-> score,
         colour |-> score_colour(score),
         comment |-> comment_kind(score),
         recommendation |-> IF comment_kind(score) = "info"
                            THEN recommendation_for(theme) ELSE ""]

\* the whole loop `for i, theme in enumerate(themes)`
theme_rows(ts, ngo, comm) ==
    [i \in 1..Len(ts) |-> theme_row(ts[i], ngo[i], comm[i])]

-----------------------------------------------------------------------------
(* The slider workflow.                                                    *)

slider_themes ==
    << "Generational Development", "Community Cohesion", "Tradition Preservation",
       "Infrastructure", "Employment", "Revenue", "Habitat Conservation",
       "Shark Population", "Protected Land" >>

\* the constant NGO capabilities
slider_ngo_capabilities == <<5, 4, 5, 3, 4, 2, 4, 6, 6>>

\* zip(a, b): as long as the shorter list
zip(a, b) ==
    LET n == IF Len(a) < Len(b) THEN Len(a) ELSE Len(b)
    IN  [k \in 1..n |-> <<a[k], b[k]>>]

\* the fit score taken from the larger of the two values
fit_score_of_max(ngo_cap, comm_cap) ==
    LET hi == IF ngo_cap < comm_cap THEN comm_cap ELSE ngo_cap
        diff == IF ngo_cap < comm_cap THEN comm_cap - ngo_cap ELSE ngo_cap - comm_cap
    IN  10 * hi + diff

\* fit_score = min(ngo_cap, comm_cap) + abs(ngo_cap - comm_cap) * 0.1, in tenths
fit_score(ngo_cap, comm_cap) ==
    LET lo == IF ngo_cap < comm_cap THEN ngo_cap ELSE comm_cap
        diff == IF ngo_cap < comm_cap THEN comm_cap - ngo_cap ELSE ngo_cap - comm_cap
    IN  10 * lo + diff

\* the pairs the fit loop walks: zip(ngo_capabilities[:-1], community_capacities)
fit_pairs(ngo, comm) == zip(but_last(ngo), comm)

\* the fit loop
compute_fit_scores(ngo, comm) ==
    LET pairs == fit_pairs(ngo, comm)
    IN  [k \in 1..Len(pairs) |-> fit_score(pairs[k][1], pairs[k][2])]

RECURSIVE Sum(_)
Sum(list) == IF Len(list) = 0 THEN 0 ELSE list[1] + Sum(Tail(list))

\* overall_fit = np.mean(fit_scores) against the thresholds 8 and 6: the mean
\* of tenths is >= t exactly when their sum is >= 10 * t * len
fit_band(scores) ==
    IF Sum(scores) >= 10 * 8 * Len(scores) THEN "success"
    ELSE IF Sum(scores) >= 10 * 6 * Len(scores) THEN "warning"
    ELSE "error"

-----------------------------------------------------------------------------
(* The files a user uploads.                                               *)

\* the example table of the script (themes, community capacity, NGO capability)
example_rows ==
<<
    << <<"1", ".", "1", " ", "A", "w", "a", "r", "e", "n", "e", "s", "s", " ", "&", " ", "E", "d", "u", "c", "a", "t", "i", "o", "n">>,
       <<"7">>, <<"8">> >>,
    << <<"1", ".", "2", " ", "C", "o", "m", "m", "u", "n", "i", "t", "y", " ", "G", "o", "v", "e", "r", "n", "a", "n", "c", "e">>,
       <<"5">>, <<"6">> >>,
    << <<"1", ".", "3", " ", "T", "r", "a", "d", "i", "t", "i", "o", "n", " ", "P", "r", "e", "s", "e", "r", "v", "a", "t", "i", "o", "n">>,
       <<"8">>, <<"7">> >>,
    << <<"2", ".", "1", " ", "I", "n", "c", "o", "m", "e", " ", "&", " ", "R", "e", "v", "e", "n", "u", "e">>,
       <<"6">>, <<"5">> >>,
    << <<"2", ".", "2", " ", "E", "m", "p", "l", "o", "y", "m", "e", "n", "t">>,
       <<"4">>, <<"7">> >>,
    << <<"2", ".", "3", " ", "A", "m", "e", "n", "i", "t", "i", "e", "s">>,
       <<"5">>, <<"4">> >>,
    << <<"3", ".", "1", " ", "H", "a", "b", "i", "t", "a", "t", " ", "C", "o", "n", "s", "e", "r", "v", "a", "t", "i", "o", "n">>,
       <<"9">>, <<"9">> >>,
    << <<"3", ".", "2", " ", "S", "h", "a", "r", "k", " ", "P", "r", "e", "s", "e", "r", "v", "a", "t", "i", "o", "n">>,
       <<"7">>, <<"8">> >>,
    << <<"3", ".", "3", " ", "P", "r", "o", "t", "e", "c", "t", "e", "d", " ", "A", "r", "e", "a">>,
       <<"8">>, <<"9">> >> >>

example_header ==
    << <<"T", "h", "e", "m", "e">>,
       <<"C", "o", "m", "m", "u", "n", "i", "t", "y", " ", "C", "a", "p", "a", "c", "i", "t", "y">>,
       <<"N", "G", "O", " ", "C", "a", "p", "a", "b", "i", "l", "i", "t", "y">> >>

\* the values a user types into a cell of column 2 or 3
CellChoices ==
    { <<"0">>, <<"4">>, <<"5">>, <<"1", "0">>, <<"1", "1">>, <<"-", "1">>, <<"a", "b", "c">> }

\* the theme names a user types instead of the example's
OtherThemes == { <<"R", "e", "v", "e", "n", "u", "e">>, <<"F", "i", "s", "h", "i", "n", "g">> }

\* a row that departs from the example: any two cells under the example's
\* theme name, or another theme name over a moderate shortfall
EditedRows ==
    { [theme |-> << >>, c |-> c, o |-> o] : c \in CellChoices, o \in CellChoices }
    \cup { [theme |-> th, c |-> <<"4">>, o |-> o] :
             th \in OtherThemes, o \in { <<"4">>, <<"5">> } }

\* a second departure: one more faulty row
FaultyRows ==
    { [theme |-> << >>, c |-> <<"1", "1">>, o |-> <<"5">>],
      [theme |-> << >>, c |-> <<"5">>, o |-> <<"a", "b", "c">>] }

NoEdit == [theme |-> << >>, c |-> <<"5">>, o |-> <<"5">>]

\* a line of `ncols` cells: the first cells of theme, c, o and filler cells
csv_line(theme, c, o, ncols) ==
    LET full == << theme, c, o, << "x" >>, << "x" >> >>
    IN  SubSeq(full, 1, ncols)

\* the k-th data line: the example's row (repeated below the ninth), or an edit
data_line(k, ncols, p1, r1, p2, r2) ==
    LET ex == example_rows[((k - 1) % NumThemes) + 1]
        r == IF k = p1 THEN r1 ELSE r2
    IN  IF k = p1 \/ k = p2
        THEN csv_line(IF r.theme = << >> THEN ex[1] ELSE r.theme, r.c, r.o, ncols)
        ELSE csv_line(ex[1], ex[2], ex[3], ncols)

\* a file: an optional header line, then n data lines, of which lines p1 and
\* p2 (0: none) are edited
csv_file(hdr, ncols, n, p1, r1, p2, r2) ==
    (IF hdr THEN << SubSeq(example_header \o << << "x" >>, << "x" >> >>, 1, ncols) >>
     ELSE << >>)
    \o [k \in 1..n |-> data_line(k, ncols, p1, r1, p2, r2)]

\* the values a slider is set to
SliderChoices == {0, 5, max_value}

-----------------------------------------------------------------------------
(* The tabular script, NGOexcelspider.main.                                *)

\* the list itself handed over: the routine works on the caller's object
copy_shared(list) == [shared |-> TRUE, items |-> list]

\* list.copy(): a new list object of the same elements
copy(list) == [shared |-> FALSE, items |-> list]

\* the caller's list once the call has returned: `+=` in the routine extends
\* the object it was given, which is the caller's only if that was handed over
caller_list(list, arg, left_as) == IF arg.shared THEN left_as ELSE list

\* `themes is not None and community_capacities is not None and
\* ngo_capabilities is not None`
load_succeeded(t, c, n) == t # None /\ c # None /\ n # None

TabularIdle ==
    /\ uploaded_file = None
    /\ themes = None
    /\ community_capacities = None
    /\ ngo_capabilities = None
    /\ st_error = << >>
    /\ fig = << >>
    /\ assessment = << >>
    /\ pc = "idle"

SliderStart ==
    /\ slider_values = [i \in 1..NumThemes |-> 0]
    /\ slider_ngo = slider_ngo_capabilities
    /\ slider_fig = << >>
    /\ fit_scores = << >>
    /\ fit_message = ""
    /\ slider_pc = "sliders"

Init == TabularIdle /\ SliderStart

\* the user uploads a file: main() calls load_data_from_csv and tests its result
Upload ==
    /\ pc = "idle"
    /\ \E hdr \in BOOLEAN, ncols \in 2..MaxCols, n \in 0..MaxRows :
       \E p1 \in 0..n :
       \E p2 \in {0} \cup (IF p1 = 0 THEN {} ELSE (p1 + 1)..n) :
       \E r1 \in (IF p1 = 0 THEN {NoEdit} ELSE EditedRows),
          r2 \in (IF p2 = 0 THEN {NoEdit} ELSE FaultyRows) :
         LET file == csv_file(hdr, ncols, n, p1, r1, p2, r2)
             loaded == load_data_from_csv(file)
         IN  /\ uploaded_file' = file
             /\ themes' = loaded.themes
             /\ community_capacities' = loaded.community_capacities
             /\ ngo_capabilities' = loaded.ngo_capabilities
             /\ st_error' = loaded.errors
             /\ pc' = IF load_succeeded(loaded.themes, loaded.community_capacities,
                                        loaded.ngo_capabilities)
                      THEN "loaded" ELSE "done"
    /\ UNCHANGED <<fig, assessment>>
    /\ UNCHANGED sliderVars

\* fig = create_radar_chart(ngo_capabilities.copy(), community_capacities.copy(), themes)
\* and st.pyplot(fig); the routine extends the copies, not main()'s lists
RenderChart ==
    /\ pc = "loaded"
    /\ LET ngo_arg == copy(ngo_capabilities)
           comm_arg == copy(community_capacities)
           drawn == create_radar_chart(ngo_arg.items, comm_arg.items, themes)
       IN  /\ fig' = << drawn.fig >>
           /\ ngo_capabilities' =
                 caller_list(ngo_capabilities, ngo_arg, drawn.ngo_capabilities)
           /\ community_capacities' =
                 caller_list(community_capacities, comm_arg, drawn.community_capacities)
    /\ pc' = "charted"
    /\ UNCHANGED <<uploaded_file, themes, st_error, assessment>>
    /\ UNCHANGED sliderVars

\* the loop over themes, to the end of the script
Score ==
    /\ pc = "charted"
    /\ assessment' = theme_rows(themes, ngo_capabilities, community_capacities)
    /\ pc' = "done"
    /\ UNCHANGED <<uploaded_file, themes, community_capacities, ngo_capabilities,
                   st_error, fig>>
    /\ UNCHANGED sliderVars

\* the user removes the file: the script runs again with uploaded_file None
Clear ==
    /\ pc = "done"
    /\ uploaded_file' = None
    /\ themes' = None
    /\ community_capacities' = None
    /\ ngo_capabilities' = None
    /\ st_error' = << >>
    /\ fig' = << >>
    /\ assessment' = << >>
    /\ pc' = "idle"
    /\ UNCHANGED sliderVars

Next == Upload \/ RenderChart \/ Score \/ Clear

Spec == Init /\ [][Next]_vars

-----------------------------------------------------------------------------
(* The slider script, NGOsliderspider.main: every change of a slider runs  *)
(* it again from the top.                                                  *)

MoveSlider ==
    /\ slider_pc = "scored"
    /\ \E i \in 1..NumThemes, v \in SliderChoices :
         /\ slider_values[i] # v
         /\ slider_values' = [k \in 1..NumThemes |-> IF k = i THEN v ELSE slider_values[k]]
    /\ slider_ngo' = slider_ngo_capabilities
    /\ slider_fig' = << >>
    /\ fit_scores' = << >>
    /\ fit_message' = ""
    /\ slider_pc' = "sliders"
    /\ UNCHANGED tabularVars

SliderRenderChart ==
    /\ slider_pc = "sliders"
    /\ LET ngo_arg == copy(slider_ngo)
           comm_arg == copy(slider_values)
           drawn == slider_create_radar_chart(ngo_arg.items, comm_arg.items, slider_themes)
       IN  /\ slider_fig' = << drawn.fig >>
           /\ slider_ngo' = caller_list(slider_ngo, ngo_arg, drawn.ngo_capabilities)
           /\ slider_values' =
                 caller_list(slider_values, comm_arg, drawn.community_capacities)
    /\ slider_pc' = "charted"
    /\ UNCHANGED <<fit_scores, fit_message>>
    /\ UNCHANGED tabularVars

SliderScore ==
    /\ slider_pc = "charted"
    /\ fit_scores' = compute_fit_scores(slider_ngo, slider_values)
    /\ fit_message' = fit_band(fit_scores')
    /\ slider_pc' = "scored"
    /\ UNCHANGED <<slider_values, slider_ngo, slider_fig>>
    /\ UNCHANGED tabularVars

SliderNext == MoveSlider \/ SliderRenderChart \/ SliderScore

SliderSpec == Init /\ [][SliderNext]_vars

-----------------------------------------------------------------------------
(* The two scripts side by side: each is an application of its own, so one *)
(* runs while the other rests where it starts.                             *)

AppsNext ==
    \/ SliderStart /\ Next
    \/ TabularIdle /\ SliderNext

AppsSpec == Init /\ [][AppsNext]_vars

-----------------------------------------------------------------------------
(* The chart routine on its own: any number of categories from 1 to MaxN.  *)

\* the values the routine is tried on
ChartChoices == {0, 4, max_value}

ChartInit ==
    /\ \E N \in 1..MaxN :
         /\ themes = [k \in 1..N |-> example_rows[((k - 1) % NumThemes) + 1][1]]
         /\ ngo_capabilities \in [1..N -> ChartChoices]
         /\ community_capacities \in [1..N -> ChartChoices]
    /\ uploaded_file = None
    /\ st_error = << >>
    /\ fig = << >>
    /\ assessment = << >>
    /\ pc = "chart_input"
    /\ SliderStart

DrawChart ==
    /\ pc = "chart_input"
    /\ fig' = << create_radar_chart(copy(ngo_capabilities).items,
                                    copy(community_capacities).items, themes).fig >>
    /\ pc' = "chart_drawn"
    /\ UNCHANGED <<uploaded_file, themes, community_capacities, ngo_capabilities,
                   st_error, assessment>>
    /\ UNCHANGED sliderVars

SliderDrawChart ==
    /\ pc \in {"chart_input", "chart_drawn"}
    /\ slider_pc = "sliders"
    /\ slider_fig' = << slider_create_radar_chart(copy(ngo_capabilities).items,
                                                  copy(community_capacities).items,
                                                  themes).fig >>
    /\ slider_pc' = "charted"
    /\ UNCHANGED <<slider_values, slider_ngo, fit_scores, fit_message>>
    /\ UNCHANGED tabularVars

ChartNext == DrawChart \/ SliderDrawChart

ChartSpec == ChartInit /\ [][ChartNext]_vars

-----------------------------------------------------------------------------
(* Properties of the tabular scoring (Spec).                               *)

\* the four bands, by the precedence the specification gives
BandOf(score) ==
    IF score = 0 THEN "Aligned"
    ELSE IF score > 0 THEN "Redundant"
    ELSE IF score < 0 - 2 THEN "Gap"
    ELSE "PartialGap"

ColourBand ==
    ("green" :> "Aligned") @@ ("orange" :> "Redundant") @@ ("red" :> "Gap") @@
    ("blue" :> "PartialGap")

CommentBand ==
    ("success" :> "Aligned") @@ ("warning" :> "Redundant") @@ ("error" :> "Gap") @@
    ("info" :> "PartialGap")

\* C1: once the scoring loop has run, every one of the 9 rows carries
\* score = org + comm - 10, the score lies in -10..10, the colour and the
\* message both belong to the band the precedence (0, > 0, < -2, else) gives,
\* and (10,10) is Redundant, (0,0) Gap, (5,5) Aligned, a score of -2 PartialGap.
C1_ScoreBands ==
    assessment # << >> =>
        /\ Len(assessment) = NumThemes
        /\ \A i \in 1..Len(assessment) :
            LET r == assessment[i]
                org == ngo_capabilities[i]
                comm == community_capacities[i]
            IN  /\ r.score = org + comm - 10
                /\ r.score \in (0 - 10)..10
                /\ ColourBand[r.colour] = BandOf(r.score)
                /\ CommentBand[r.comment] = BandOf(r.score)
                /\ (org = 10 /\ comm = 10) => CommentBand[r.comment] = "Redundant"
                /\ (org = 0 /\ comm = 0) => CommentBand[r.comment] = "Gap"
                /\ (org = 5 /\ comm = 5) => CommentBand[r.comment] = "Aligned"
                /\ r.score = 0 - 2 => CommentBand[r.comment] = "PartialGap"

\* a scored table with a row whose score is exactly -2, shown blue
C1_Witness ==
    /\ pc = "done"
    /\ \E i \in 1..Len(assessment) :
         assessment[i].score = 0 - 2 /\ assessment[i].colour = "blue"

\* C2: a PartialGap row whose theme is one of the 9 catalogue names carries
\* that same name's remediation text.
C2_CanonicalLookup ==
    \A i \in 1..Len(assessment) :
        \A k \in 1..Len(strategic_recommendations) :
            ( /\ assessment[i].comment = "info"
              /\ assessment[i].theme = strategic_recommendations[k].key )
            => assessment[i].recommendation = strategic_recommendations[k].value

-----------------------------------------------------------------------------
(* Properties of the loader (Spec).  A file is read as the specification   *)
(* reads it: its lines are the rows of the input, numbered from 1.         *)

\* a line whose columns 2 and 3 are numbers
NumericLine(line) == IsNumeric(line[2]) /\ IsNumeric(line[3])

\* a line whose columns 2 and 3 are numbers of 0..10
ValidLine(line) ==
    /\ NumericLine(line)
    /\ float(line[2]) \in 0..10
    /\ float(line[3]) \in 0..10

\* a file was uploaded and it has a first line
Uploaded == pc # "idle" /\ uploaded_file # None /\ Len(uploaded_file) >= 1

\* the number of columns of the uploaded file
Columns == Len(uploaded_file[1])

\* 1 when the loader's header test finds a header row, else 0: the test reads
\* the first row below the line that names the columns
HeaderSkip ==
    IF Len(uploaded_file) >= 2 /\ ~NumericLine(uploaded_file[2]) THEN 1 ELSE 0

\* the data rows left after the header skip
DataRows == Len(uploaded_file) - 1 - HeaderSkip

\* the line numbers, in the file, of the 9 selected data rows
SelectedLines == { 1 + HeaderSkip + k : k \in 1..NumThemes }

\* C4: a file made of a non-numeric header line and 9 valid data rows loads,
\* and the file of those 9 rows alone loads to the identical Assessment.
C4_HeaderIdempotent ==
    ( /\ Uploaded
      /\ Columns >= 3
      /\ Len(uploaded_file) = 1 + NumThemes
      /\ ~IsNumeric(uploaded_file[1][2]) /\ ~IsNumeric(uploaded_file[1][3])
      /\ \A k \in 2..(1 + NumThemes) : ValidLine(uploaded_file[k]) )
    => LET stripped == load_data_from_csv(Tail(uploaded_file))
       IN  /\ st_error = << >>
           /\ themes # None
           /\ stripped.errors = << >>
           /\ stripped.themes = themes
           /\ stripped.community_capacities = community_capacities
           /\ stripped.ngo_capabilities = ngo_capabilities

C6_RangeRowNumber ==
    ( /\ Uploaded
      /\ Columns >= 3
      /\ DataRows >= NumThemes
      /\ \A l \in SelectedLines : NumericLine(uploaded_file[l])
      /\ \E l \in SelectedLines : ~ValidLine(uploaded_file[l]) )
    => st_error =
         << [kind |-> "RangeError",
             n |-> Min({ l \in SelectedLines : ~ValidLine(uploaded_file[l]) })] >>

\* C7: an input of at least 3 columns with fewer than 9 data rows after the
\* header skip fails with the row-count error, which names 9 + h rows.
C7_RowCount ==
    (Uploaded /\ Columns >= 3 /\ DataRows < NumThemes)
    => st_error = << [kind |-> "RowCountError", n |-> NumThemes + HeaderSkip] >>

\* the error the fixed order of checks gives: columns, rows, numbers, range
ExpectedError ==
    IF Columns < 3 THEN "SchemaError"
    ELSE IF DataRows < NumThemes THEN "RowCountError"
    ELSE IF \E l \in SelectedLines : ~NumericLine(uploaded_file[l]) THEN "TypeError"
    ELSE IF \E l \in SelectedLines : ~ValidLine(uploaded_file[l]) THEN "RangeError"
    ELSE "none"

\* C8: the loader reports the error of the first failing check, in the order
\* column count, row count after header detection, numeric coercion, range.
C8_ValidationOrder ==
    Uploaded =>
        IF ExpectedError = "none" THEN st_error = << >>
        ELSE Len(st_error) = 1 /\ st_error[1].kind = ExpectedError

ErrorKinds == {"SchemaError", "RowCountError", "TypeError", "RangeError", "ReadError"}

\* C9: a load that ends in an error shows one message and returns three
\* Nones, and then no chart is drawn and no theme is scored; a chart or a
\* scored row exists only after a load without error.
C9_NoChartAfterError ==
    /\ (pc # "idle" /\ (st_error # << >> \/ themes = None)) =>
         /\ Len(st_error) = 1
         /\ st_error[1].kind \in ErrorKinds
         /\ themes = None
         /\ community_capacities = None
         /\ ngo_capabilities = None
         /\ fig = << >>
         /\ assessment = << >>
         /\ pc = "done"
    /\ (fig # << >> \/ assessment # << >>) =>
         /\ st_error = << >>
         /\ themes # None
         /\ load_data_from_csv(uploaded_file).errors = << >>

\* a submission rejected for a value out of range, its script at its end
C9_Witness ==
    /\ pc = "done"
    /\ st_error # << >>
    /\ st_error[1].kind = "RangeError"
    /\ fig = << >>

-----------------------------------------------------------------------------
(* Properties of the slider fit (SliderSpec).                              *)

\* C3: once the fit is computed there is one score per slider, the i-th being
\* min(org[i], comm[i]) + 0.1 * |org[i] - comm[i]| (in tenths) of the i-th
\* reference capability and the i-th slider, so the mean runs over all 9.
C3_MeanOfAllNine ==
    slider_pc = "scored" =>
        /\ Len(fit_scores) = NumThemes
        /\ \A i \in 1..Len(fit_scores) :
             LET org == slider_ngo_capabilities[i]
                 comm == slider_values[i]
             IN  fit_scores[i] =
                   IF org < comm THEN 10 * org + (comm - org)
                   ELSE 10 * comm + (org - comm)

-----------------------------------------------------------------------------
(* Properties of the chart routine (ChartSpec).                            *)

\* the geometry the specification gives for N categories
ClosedPolyline(f, org, comm, N) ==
    /\ Len(f.angles) = N + 1
    /\ Len(f.ngo_line) = N + 1
    /\ Len(f.community_line) = N + 1
    /\ \A i \in 0..N :
         /\ f.angles[i + 1] = [num |-> i % N, den |-> N]
         /\ f.angles[i + 1].num < f.angles[i + 1].den
         /\ f.ngo_line[i + 1] = org[(i % N) + 1]
         /\ f.community_line[i + 1] = 10 - comm[(i % N) + 1]
         /\ f.community_line[i + 1] \in 0..10
         /\ comm[(i % N) + 1] = 10 => f.community_line[i + 1] = 0
         /\ comm[(i % N) + 1] = 0 => f.community_line[i + 1] = 10
    /\ f.angles[N + 1] = f.angles[1]
    /\ f.ngo_line[N + 1] = f.ngo_line[1]
    /\ f.community_line[N + 1] = f.community_line[1]
    /\ f.xticks = SubSeq(f.angles, 1, N)
    /\ Len(f.xticklabels) = N

\* C10: each routine draws both series as closed polylines of N + 1 points,
\* point i at angle 2*pi*(i mod N)/N, radius org[i mod N] outward and
\* 10 - comm[i mod N] inward; the labels sit at the N base angles.
C10_ClosedPolyline ==
    /\ fig # << >> =>
         ClosedPolyline(fig[1], ngo_capabilities, community_capacities, Len(themes))
    /\ slider_fig # << >> =>
         ClosedPolyline(slider_fig[1], ngo_capabilities, community_capacities, Len(themes))

\* both routines have drawn three categories, one at capacity 10, one at 0
C10_Witness ==
    /\ fig # << >>
    /\ slider_fig # << >>
    /\ Len(themes) = 3
    /\ community_capacities[1] = 10
    /\ community_capacities[2] = 0

-----------------------------------------------------------------------------
(* Rendering and the caller's lists                                        *)

\* the vectors the loader built from the uploaded file
Constructed == load_data_from_csv(uploaded_file)

\* the chart call of the tabular script
RenderStep == pc = "loaded" /\ pc' = "charted"

\* the scoring loop of the tabular script
ScoreStep == pc = "charted" /\ pc' = "done"

\* the chart call of the slider script
SliderRenderStep == slider_pc = "sliders" /\ slider_pc' = "charted"

\* the fit loop of the slider script
SliderScoreStep == slider_pc = "charted" /\ slider_pc' = "scored"

\* a vector of one value per dimension
NineValues(list) == Len(list) = NumThemes

-----------------------------------------------------------------------------
(* The bands the slider script can show                                    *)

\* every slider at its maximum
all_sliders_at_max == [i \in 1..NumThemes |-> max_value]

\* C12: with the reference vector [5, 4, 5, 3, 4, 2, 4, 6, 6] the overall fit
\* stays below 6 whatever the sliders say, so the band shown is always the
\* limited one.  A dimension's fit score is never higher than with its slider
\* at 10, for any slider value in 0..10; the mean with all sliders at 10 is
\* already below 6; and every scored state shows the "error" band with a mean
\* below 6, never "success" or "warning".
C12_AlwaysLimited ==
    /\ \A i \in 1..NumThemes : \A c \in 0..max_value :
          fit_score(slider_ngo_capabilities[i], c)
              <= fit_score(slider_ngo_capabilities[i], max_value)
    /\ LET best == compute_fit_scores(slider_ngo_capabilities, all_sliders_at_max)
       IN  /\ Sum(best) < 10 * 6 * Len(best)
           /\ fit_band(best) = "error"
    /\ slider_pc = "scored" =>
          /\ Sum(fit_scores) < 10 * 6 * Len(fit_scores)
          /\ fit_message = "error"
          /\ fit_message \notin {"success", "warning"}

\* the best case has been scored: all nine sliders at 10, band still limited
C12_Witness ==
    /\ slider_pc = "scored"
    /\ slider_values = all_sliders_at_max
    /\ fit_message = "error"

=============================================================================
